---- MODULE Spec2Model ----
(***************************************************************************)
(* batify: battery fleet monitor.                                          *)
(*                                                                         *)
(* src/src/battery.c  attribute reads and derived metrics                  *)
(* src/src/main.c     configuration, the per-device notification state     *)
(*                    machine (battery_handler) and the discovery tick     *)
(*                    (batteries_supply_handler) on a GLib main loop       *)
(***************************************************************************)
EXTENDS Integers, Sequences, FiniteSets, TLC

(***************************************************************************)
(* Bounds of the model.                                                    *)
(***************************************************************************)
\* guint64 is modelled at WordBits bits: arithmetic wraps modulo 2^WordBits.
WordBits == 13
\* GLib source ids handed out by g_timeout_add*: 1 .. MaxTag.
MaxTag == 2

UINT64_MOD == 2 ^ WordBits
G_MAXUINT64 == UINT64_MOD - 1

(***************************************************************************)
(* Program constants.                                                      *)
(***************************************************************************)
DEFAULT_INTERVAL == 5
DEFAULT_LOW_LEVEL == 20
DEFAULT_CRITICAL_LEVEL == 10
DEFAULT_FULL_CAPACITY == 98
PERCENTAGE == 100
HOUR == 3600

\* BATTERY_STATUS; 0 is the value context_init stores before any status is seen.
NO_STATUS == 0
UNKNOWN_STATUS == 1
DISCHARGING_STATUS == 2
NOT_CHARGING_STATUS == 3
CHARGING_STATUS == 4
CHARGED_STATUS == 5

ConcreteStatuses ==
    {DISCHARGING_STATUS, NOT_CHARGING_STATUS, CHARGING_STATUS, CHARGED_STATUS}

G_SOURCE_CONTINUE == TRUE
G_SOURCE_REMOVE == FALSE

(***************************************************************************)
(* The attribute filesystem: a file is unreadable or holds a text, a       *)
(* sequence of characters.                                                 *)
(***************************************************************************)
NoFile == [ok |-> FALSE, text |-> <<>>]
File(text) == [ok |-> TRUE, text |-> text]

Digits == <<"0", "1", "2", "3", "4", "5", "6", "7", "8", "9">>
IsDigit(c) == \E i \in 1..10 : Digits[i] = c
DigitVal(c) == (CHOOSE i \in 1..10 : Digits[i] = c) - 1
IsSpace(c) == c \in {" ", "\n", "\t", "\r"}

\* The text the kernel writes for the number n: its decimal digits and a newline.
RECURSIVE DecDigits(_)
DecDigits(n) ==
    IF n < 10 THEN <<Digits[n + 1]>>
    ELSE DecDigits(n \div 10) \o <<Digits[(n % 10) + 1]>>
Dec(n) == File(DecDigits(n) \o <<"\n">>)

HasPrefix(s, p) == Len(s) >= Len(p) /\ SubSeq(s, 1, Len(p)) = p

\* g_ascii_strtoull(s, NULL, 10): skips white space, takes an optional sign and
\* the longest run of digits; no digits give 0 with errno untouched, a '-' negates
\* modulo 2^64, and an overflow gives G_MAXUINT64 with errno = ERANGE.
RECURSIVE SkipSpace(_, _)
SkipSpace(s, i) ==
    IF i <= Len(s) /\ IsSpace(s[i]) THEN SkipSpace(s, i + 1) ELSE i

RECURSIVE ParseDigits(_, _, _, _)
ParseDigits(s, i, acc, overflow) ==
    IF i <= Len(s) /\ IsDigit(s[i])
    THEN LET c == DigitVal(s[i])
             cutoff == G_MAXUINT64 \div 10
             cutlim == G_MAXUINT64 % 10
         IN  IF overflow \/ acc > cutoff \/ (acc = cutoff /\ c > cutlim)
             THEN ParseDigits(s, i + 1, acc, TRUE)
             ELSE ParseDigits(s, i + 1, acc * 10 + c, FALSE)
    ELSE [value |-> acc, overflow |-> overflow, end |-> i]

g_ascii_strtoull(s) ==
    LET i == SkipSpace(s, 1)
        negative == i <= Len(s) /\ s[i] = "-"
        j == IF i <= Len(s) /\ s[i] \in {"-", "+"} THEN i + 1 ELSE i
        p == ParseDigits(s, j, 0, FALSE)
    IN  IF p.end = j THEN [value |-> 0, errno |-> FALSE]
        ELSE IF p.overflow THEN [value |-> G_MAXUINT64, errno |-> TRUE]
        ELSE [value |-> IF negative THEN (UINT64_MOD - p.value) % UINT64_MOD
                                    ELSE p.value,
              errno |-> FALSE]

\* _get_sysattr_int: fails when the file cannot be read or strtoull set errno.
\* The gint64 temporary holds the same 64 bits, so the value is unchanged.
_get_sysattr_int(file) ==
    IF ~file.ok THEN [ok |-> FALSE, value |-> 0]
    ELSE LET r == g_ascii_strtoull(file.text)
         IN  IF r.errno THEN [ok |-> FALSE, value |-> 0]
             ELSE [ok |-> TRUE, value |-> r.value]

\* get_battery_status: classification of the status text by prefix.
get_battery_status(file) ==
    IF ~file.ok THEN [ok |-> FALSE, status |-> NO_STATUS]
    ELSE [ok |-> TRUE,
          status |->
            IF HasPrefix(file.text, <<"C","h","a","r","g","i","n","g">>)
            THEN CHARGING_STATUS
            ELSE IF HasPrefix(file.text,
                              <<"D","i","s","c","h","a","r","g","i","n","g">>)
            THEN DISCHARGING_STATUS
            ELSE IF HasPrefix(file.text,
                              <<"N","o","t"," ","c","h","a","r","g","i","n","g">>)
            THEN NOT_CHARGING_STATUS
            ELSE IF HasPrefix(file.text, <<"F","u","l","l">>)
            THEN CHARGED_STATUS
            ELSE UNKNOWN_STATUS]

\* What a conversion of a double outside the guint64 range (infinite, NaN, too
\* large) may leave in the guint64: the C standard leaves it undefined.
UndefinedUint == {0, G_MAXUINT64}

\* (guint64)(x / y) for a non-negative quotient; y = 0 gives inf or NaN.
DoubleToUint(num, den) ==
    IF den = 0 \/ num \div den > G_MAXUINT64 THEN UndefinedUint
    ELSE {num \div den}

(***************************************************************************)
(* What the attribute files may hold when a tick reads them.  Every read   *)
(* opens the file again, so each read draws its own content.               *)
(***************************************************************************)
StatusFiles ==
    { NoFile,
      File(<<"C","h","a","r","g","i","n","g","\n">>),
      File(<<"D","i","s","c","h","a","r","g","i","n","g","\n">>),
      File(<<"N","o","t"," ","c","h","a","r","g","i","n","g","\n">>),
      File(<<"F","u","l","l","\n">>),
      File(<<"U","n","k","n","o","w","n","\n">>),
      File(<<"c","h","a","r","g","i","n","g","\n">>) }
CapacityFiles == {NoFile, Dec(10), Dec(11), Dec(20), Dec(21), Dec(98)}
NowFiles == {NoFile, Dec(8)}
FullFiles == {NoFile, Dec(0), Dec(64)}
RateFiles == {NoFile, Dec(0), Dec(HOUR)}

\* A GError* as the caller of a failed read finds it: "none" (NULL), "set" (a
\* GError the callee allocated) or "wild" (not a GError: the callee's local
\* _error was never initialised and was not NULL).
ErrorStates == {"none", "set", "wild"}

\* _get_battery_capacity: GError* _error is declared without an initialiser, so
\* on a failed read it is either the new GError (the slot happened to hold NULL)
\* or whatever the slot held; PROPAGATE_ERROR hands it to the caller.
_get_battery_capacity(now_file, full_file) ==
    LET now == _get_sysattr_int(now_file)
        full == _get_sysattr_int(full_file)
    IN  IF ~now.ok \/ ~full.ok
        THEN {[ok |-> FALSE, value |-> 0, error |-> e] : e \in {"set", "wild"}}
        ELSE {[ok |-> TRUE, value |-> v, error |-> "none"] :
                v \in DoubleToUint(now.value * PERCENTAGE, full.value)}

\* get_battery_capacity: the capacity attribute when it reads, else now/full of
\* the scheme the battery uses (charge_* or energy_*, by battery->use_charge).
get_battery_capacity(capacity_file, now_file, full_file) ==
    LET direct == _get_sysattr_int(capacity_file)
    IN  IF direct.ok
        THEN {[ok |-> TRUE, value |-> direct.value, error |-> "none"]}
        ELSE _get_battery_capacity(now_file, full_file)

\* _get_battery_time: three reads, then the formula of the status.
_get_battery_time(now_file, full_file, rate_file, status) ==
    LET charge_now == _get_sysattr_int(now_file)
        charge_full == _get_sysattr_int(full_file)
        current_now == _get_sysattr_int(rate_file)
    IN  IF ~charge_now.ok \/ ~charge_full.ok \/ ~current_now.ok
        THEN {[ok |-> FALSE, seconds |-> 0]}
        ELSE IF status \in {DISCHARGING_STATUS, NOT_CHARGING_STATUS}
        THEN {[ok |-> TRUE, seconds |-> s] :
                s \in DoubleToUint(HOUR * charge_now.value, current_now.value)}
        ELSE IF status \in {CHARGING_STATUS, CHARGED_STATUS}
        THEN {[ok |-> TRUE, seconds |-> s] :
                s \in DoubleToUint(
                        HOUR * ((charge_full.value - charge_now.value) % UINT64_MOD),
                        current_now.value)}
        ELSE {[ok |-> FALSE, seconds |-> 0]}

get_battery_time(now_file, full_file, rate_file, status) ==
    _get_battery_time(now_file, full_file, rate_file, status)

\* Every result the reads of one tick can give.
StatusReads == {get_battery_status(f) : f \in StatusFiles}
CapacityReads ==
    UNION {get_battery_capacity(c, n, f) :
             c \in CapacityFiles, n \in NowFiles, f \in FullFiles}
TimeReadsOf ==
    [status \in UNKNOWN_STATUS..CHARGED_STATUS |->
       UNION {get_battery_time(n, f, r, status) :
                n \in NowFiles, f \in FullFiles, r \in RateFiles}]
TimeReads(status) == TimeReadsOf[status]

(***************************************************************************)
(* main.c: configuration, Context, notifications.                          *)
(***************************************************************************)
\* static struct config, as initialised.
DefaultConfig ==
    [interval |-> DEFAULT_INTERVAL, low_level |-> DEFAULT_LOW_LEVEL,
     critical_level |-> DEFAULT_CRITICAL_LEVEL,
     full_capacity |-> DEFAULT_FULL_CAPACITY, debug |-> FALSE]

\* A context_init that starts with the low notification marked as shown.
context_initNotified(battery) ==
    [battery |-> battery, prev_status |-> NO_STATUS,
     low_level_notified |-> TRUE, critical_level_notified |-> FALSE]

\* context_init: the Context of a new watcher.
context_init(battery) ==
    [battery |-> battery, prev_status |-> NO_STATUS,
     low_level_notified |-> FALSE, critical_level_notified |-> FALSE]

\* BATTERY_LEVEL
LOW_LEVEL == 0
CRITICAL_LEVEL == 1

\* What battery_status_notification / battery_level_notification hand to the
\* notification sink.
battery_status_notification(status, percent, seconds) ==
    [kind |-> "status", what |-> status, percent |-> percent, seconds |-> seconds]
battery_level_notification(level, percent, seconds) ==
    [kind |-> "level", what |-> level, percent |-> percent, seconds |-> seconds]

\* LOG_WARNING_AND_RETURN: g_warning reads error->message and g_error_free frees
\* error when error is not NULL.  With a pointer that is no GError the process
\* may die there or may get through; the result is whether it died.
LOG_WARNING_AND_RETURN(error) ==
    IF error = "wild" THEN {TRUE, FALSE} ELSE {FALSE}

\* ClearFlags, were the two flags left as they are.
KeepFlags(c) == c

\* The two lines that open the UNKNOWN, CHARGED and CHARGING cases.
ClearFlags(c) ==
    [c EXCEPT !.low_level_notified = FALSE, !.critical_level_notified = FALSE]

\* Abandon, were the status of the failed run remembered as prev_status.
AbandonRemember(c, res, status, error) ==
    {[c |-> [c EXCEPT !.prev_status = status], alerts |-> <<>>, res |-> res,
      status |-> status, capacity |-> -1, time_ok |-> TRUE, crashed |-> k,
      ret |-> G_SOURCE_CONTINUE] :
        k \in LOG_WARNING_AND_RETURN(error)}

\* Abandon, were the debounce flags reset on the way out.
AbandonClearFlags(c, res, status, error) ==
    {[c |-> ClearFlags(c), alerts |-> <<>>, res |-> res, status |-> status,
      capacity |-> -1, time_ok |-> TRUE, crashed |-> k, ret |-> G_SOURCE_CONTINUE] :
        k \in LOG_WARNING_AND_RETURN(error)}

\* Abandon, were the failure shown to the user as a notification.
AbandonNotify(c, res, status, error) ==
    {[c |-> c, alerts |-> <<battery_status_notification(status, 0, 0)>>,
      res |-> res, status |-> status, capacity |-> -1, time_ok |-> TRUE,
      crashed |-> k, ret |-> G_SOURCE_CONTINUE] :
        k \in LOG_WARNING_AND_RETURN(error)}

\* One run of battery_handler that left through LOG_WARNING_AND_RETURN
\* (G_SOURCE_CONTINUE, ...): c is the Context as the run leaves it.
Abandon(c, res, status, error) ==
    {[c |-> c, alerts |-> <<>>, res |-> res, status |-> status, capacity |-> -1,
      time_ok |-> TRUE, crashed |-> k, ret |-> G_SOURCE_CONTINUE] :
        k \in LOG_WARNING_AND_RETURN(error)}

\* One run that reached the end of the switch: prev_status = status, return
\* G_SOURCE_CONTINUE.
Finish(c, alerts, status, capacity, time_ok) ==
    [c |-> [c EXCEPT !.prev_status = status], alerts |-> alerts, res |-> "ok",
     status |-> status, capacity |-> capacity, time_ok |-> time_ok,
     crashed |-> FALSE, ret |-> G_SOURCE_CONTINUE]

\* get_battery_time as battery_handler uses it: a failure gives seconds = 0.
SecondsOrZero(t) == IF t.ok THEN t.seconds ELSE 0

\* UnknownCase, were the notification sent with percent 100 as in the CHARGED
\* case.
UnknownCasePercent100(c, cfg, status) ==
    LET c1 == [c EXCEPT !.low_level_notified = FALSE,
                        !.critical_level_notified = FALSE]
    IN  IF c1.prev_status = status
        THEN {[c |-> [c1 EXCEPT !.prev_status = status], alerts |-> <<>>,
               res |-> "ok", status |-> status, capacity |-> -1, time_ok |-> TRUE,
               crashed |-> FALSE, ret |-> G_SOURCE_CONTINUE]}
        ELSE UNION {
               IF ~cap.ok
               THEN {[c |-> c1, alerts |-> <<>>, res |-> "capacity_err",
                      status |-> status, capacity |-> -1, time_ok |-> TRUE,
                      crashed |-> k, ret |-> G_SOURCE_CONTINUE] :
                       k \in LOG_WARNING_AND_RETURN(cap.error)}
               ELSE {[c |-> [c1 EXCEPT !.prev_status = status],
                      alerts |-> IF cap.value >= cfg.full_capacity
                                 THEN <<battery_status_notification(
                                          CHARGED_STATUS, 100, 0)>>
                                 ELSE <<>>,
                      res |-> "ok", status |-> status, capacity |-> cap.value,
                      time_ok |-> TRUE, crashed |-> FALSE,
                      ret |-> G_SOURCE_CONTINUE]}
               : cap \in CapacityReads}

\* case UNKNOWN_STATUS
UnknownCase(c, cfg, status) ==
    LET c1 == ClearFlags(c)
    IN  IF c1.prev_status = status
        THEN {Finish(c1, <<>>, status, -1, TRUE)}
        ELSE UNION {
               IF ~cap.ok
               THEN Abandon(c1, "capacity_err", status, cap.error)
               ELSE {Finish(c1,
                            IF cap.value >= cfg.full_capacity
                            THEN <<battery_status_notification(
                                     CHARGED_STATUS, cap.value, 0)>>
                            ELSE <<>>,
                            status, cap.value, TRUE)}
               : cap \in CapacityReads}

\* case CHARGED_STATUS
ChargedCase(c, cfg, status) ==
    LET c1 == ClearFlags(c)
    IN  {Finish(c1,
                IF c1.prev_status # status
                THEN <<battery_status_notification(status, 100, 0)>>
                ELSE <<>>,
                status, -1, TRUE)}

\* case CHARGING_STATUS
ChargingCase(c, cfg, status) ==
    LET c1 == ClearFlags(c)
    IN  IF c1.prev_status = status
        THEN {Finish(c1, <<>>, status, -1, TRUE)}
        ELSE UNION {
               IF ~cap.ok
               THEN Abandon(c1, "capacity_err", status, cap.error)
               ELSE {Finish(c1,
                            <<battery_status_notification(
                                status, cap.value, SecondsOrZero(t))>>,
                            status, cap.value, t.ok)
                     : t \in TimeReads(status)}
               : cap \in CapacityReads}

\* StatusChangeStep, were the notification sent on every tick.
StatusChangeStepAlways(c, status, capacity, seconds) ==
    <<battery_status_notification(status, capacity, seconds)>>

\* The status notification of the DISCHARGING / NOT_CHARGING case.
StatusChangeStep(c, status, capacity, seconds) ==
    IF c.prev_status # status
    THEN <<battery_status_notification(status, capacity, seconds)>>
    ELSE <<>>

\* CriticalLevelStep, were low_level_notified left as it is.
CriticalLevelStepKeepLow(c, cfg, capacity, seconds) ==
    IF (c.critical_level_notified = FALSE) /\ (capacity <= cfg.critical_level)
    THEN [c |-> [c EXCEPT !.critical_level_notified = TRUE],
          alerts |-> <<battery_level_notification(CRITICAL_LEVEL, capacity, seconds)>>]
    ELSE [c |-> c, alerts |-> <<>>]

\* if (critical_level_notified == FALSE && capacity <= config.critical_level)
CriticalLevelStep(c, cfg, capacity, seconds) ==
    IF (c.critical_level_notified = FALSE) /\ (capacity <= cfg.critical_level)
    THEN [c |-> [c EXCEPT !.low_level_notified = FALSE,
                          !.critical_level_notified = TRUE],
          alerts |-> <<battery_level_notification(CRITICAL_LEVEL, capacity, seconds)>>]
    ELSE [c |-> c, alerts |-> <<>>]

\* LowLevelStep, were critical_level_notified left as it is.
LowLevelStepKeepCritical(c, cfg, capacity, seconds) ==
    IF (c.low_level_notified = FALSE) /\ (capacity > cfg.critical_level)
       /\ (capacity <= cfg.low_level)
    THEN [c |-> [c EXCEPT !.low_level_notified = TRUE],
          alerts |-> <<battery_level_notification(LOW_LEVEL, capacity, seconds)>>]
    ELSE [c |-> c, alerts |-> <<>>]

\* LowLevelStep, were low_level_notified cleared once the capacity is above
\* low_level.
LowLevelStepRearm(c, cfg, capacity, seconds) ==
    IF (c.low_level_notified = FALSE) /\ (capacity > cfg.critical_level)
       /\ (capacity <= cfg.low_level)
    THEN [c |-> [c EXCEPT !.low_level_notified = TRUE,
                          !.critical_level_notified = FALSE],
          alerts |-> <<battery_level_notification(LOW_LEVEL, capacity, seconds)>>]
    ELSE IF capacity > cfg.low_level
    THEN [c |-> [c EXCEPT !.low_level_notified = FALSE], alerts |-> <<>>]
    ELSE [c |-> c, alerts |-> <<>>]

\* LowLevelStep, were low_level_notified not looked at.
LowLevelStepRepeat(c, cfg, capacity, seconds) ==
    IF (capacity > cfg.critical_level) /\ (capacity <= cfg.low_level)
    THEN [c |-> [c EXCEPT !.low_level_notified = TRUE,
                          !.critical_level_notified = FALSE],
          alerts |-> <<battery_level_notification(LOW_LEVEL, capacity, seconds)>>]
    ELSE [c |-> c, alerts |-> <<>>]

\* if (low_level_notified == FALSE && capacity > config.critical_level
\*     && capacity <= config.low_level)
LowLevelStep(c, cfg, capacity, seconds) ==
    IF (c.low_level_notified = FALSE) /\ (capacity > cfg.critical_level)
       /\ (capacity <= cfg.low_level)
    THEN [c |-> [c EXCEPT !.low_level_notified = TRUE,
                          !.critical_level_notified = FALSE],
          alerts |-> <<battery_level_notification(LOW_LEVEL, capacity, seconds)>>]
    ELSE [c |-> c, alerts |-> <<>>]

\* A DISCHARGING / NOT_CHARGING case that clears both flags whenever the
\* status differs from prev_status.
DischargingCaseReset(c, cfg, status) ==
    UNION {
      IF ~cap.ok
      THEN Abandon(c, "capacity_err", status, cap.error)
      ELSE {LET seconds == SecondsOrZero(t)
                c0 == IF status # c.prev_status
                      THEN [c EXCEPT !.low_level_notified = FALSE,
                                     !.critical_level_notified = FALSE]
                      ELSE c
                a1 == StatusChangeStep(c0, status, cap.value, seconds)
                s2 == CriticalLevelStep(c0, cfg, cap.value, seconds)
                s3 == LowLevelStep(s2.c, cfg, cap.value, seconds)
            IN  Finish(s3.c, a1 \o s2.alerts \o s3.alerts, status, cap.value, t.ok)
            : t \in TimeReads(status)}
      : cap \in CapacityReads}

\* case DISCHARGING_STATUS / NOT_CHARGING_STATUS
DischargingCase(c, cfg, status) ==
    UNION {
      IF ~cap.ok
      THEN Abandon(c, "capacity_err", status, cap.error)
      ELSE {LET seconds == SecondsOrZero(t)
                a1 == StatusChangeStep(c, status, cap.value, seconds)
                s2 == CriticalLevelStep(c, cfg, cap.value, seconds)
                s3 == LowLevelStep(s2.c, cfg, cap.value, seconds)
            IN  Finish(s3.c, a1 \o s2.alerts \o s3.alerts, status, cap.value, t.ok)
            : t \in TimeReads(status)}
      : cap \in CapacityReads}

\* battery_handler(context): every way one run can go, over the contents the
\* attribute files may have.
battery_handler(c, cfg) ==
    UNION {
      IF ~st.ok THEN Abandon(c, "status_err", NO_STATUS, "set")
      ELSE IF st.status = UNKNOWN_STATUS THEN UnknownCase(c, cfg, st.status)
      ELSE IF st.status = CHARGED_STATUS THEN ChargedCase(c, cfg, st.status)
      ELSE IF st.status = CHARGING_STATUS THEN ChargingCase(c, cfg, st.status)
      ELSE DischargingCase(c, cfg, st.status)
      : st \in StatusReads}

(***************************************************************************)
(* Command line and options_init.                                          *)
(***************************************************************************)
\* option_entries: the member of config each option is stored to.  The entry
\* of "full-capacity" names &config, the address of the first member.
OptionTarget(option) ==
    CASE option = "interval" -> "interval"
      [] option = "low-level" -> "low_level"
      [] option = "critical-level" -> "critical_level"
      [] option = "full-capacity" -> "interval"

\* g_option_context_parse: each <<option, value>> of the command line, in order.
RECURSIVE ParseOptions(_, _)
ParseOptions(cfg, argv) ==
    IF argv = <<>> THEN cfg
    ELSE ParseOptions([cfg EXCEPT ![OptionTarget(Head(argv)[1])] = Head(argv)[2]],
                      Tail(argv))

\* options_init, were low_level not compared with critical_level.
options_initNoOrder(cfg) ==
    /\ ~(cfg.low_level < 0 \/ cfg.low_level > 100)
    /\ ~(cfg.critical_level < 0 \/ cfg.critical_level > 100)
    /\ ~(cfg.full_capacity < 0 \/ cfg.full_capacity > 100)
    /\ ~(cfg.full_capacity < cfg.critical_level)

\* The range and order checks of options_init.
options_init(cfg) ==
    /\ ~(cfg.low_level < 0 \/ cfg.low_level > 100)
    /\ ~(cfg.critical_level < 0 \/ cfg.critical_level > 100)
    /\ ~(cfg.full_capacity < 0 \/ cfg.full_capacity > 100)
    /\ ~(cfg.low_level < cfg.critical_level)
    /\ ~(cfg.full_capacity < cfg.critical_level)

CommandLines ==
    { <<>>,
      << <<"critical-level", 30>> >> }

(***************************************************************************)
(* The power_supply directory as one discovery tick finds it.              *)
(***************************************************************************)
Names == {"BAT0", "BAT1"}
Serials == {"s1", "s2"}

\* A directory entry with the BAT prefix: whether its static attributes read
\* (battery_init), its serial number, whether charge_now exists.
Entries ==
    [name : Names, init_ok : BOOLEAN, serial_number : Serials, use_charge : {TRUE}]

\* The entries in the order g_dir_read_name gives them; names are distinct.
Directories ==
    {d \in UNION {[1..n -> Entries] : n \in 0..Cardinality(Names)} :
       /\ \A i, j \in DOMAIN d : d[i].name = d[j].name => i = j
       /\ \A i \in DOMAIN d : ~d[i].init_ok => d[i].serial_number = "s1"}

\* battery_init
battery_init(e) ==
    [name |-> e.name, serial_number |-> e.serial_number, use_charge |-> e.use_charge]

\* battery_copy
battery_copy(b) == b

RECURSIVE Reverse(_)
Reverse(q) == IF q = <<>> THEN <<>> ELSE Append(Reverse(Tail(q)), Head(q))

\* get_batteries_supply: the list (each battery prepended), or a failure at the
\* first entry whose battery_init fails or when the directory cannot be opened.
get_batteries_supply(dir_ok, dir) ==
    IF ~dir_ok \/ \E i \in DOMAIN dir : ~dir[i].init_ok
    THEN [ok |-> FALSE, list |-> <<>>]
    ELSE [ok |-> TRUE, list |-> Reverse([i \in DOMAIN dir |-> battery_init(dir[i])])]

(***************************************************************************)
(* State.                                                                  *)
(***************************************************************************)
VARIABLES
    pc,        \* "start", "running", "quitting", "exited", "crashed"
    config,    \* struct config
    watchers,  \* the hash table: serial number -> source id
    sources,   \* ids of the live sources of the main context
    ctx,       \* source id of a poll task -> its Context
    next_tag,  \* the id the next g_timeout_add* returns
    pending,   \* after g_main_loop_quit: poll tasks the iteration still dispatches
    ev,        \* what the last handler run did (observation)
    out,       \* the notifications the last handler run showed
    hist,      \* the last two runs of battery_handler (observation, SpecSM)
    call       \* a call of a reader of battery.c: its arguments, then its result

vars == <<pc, config, watchers, sources, ctx, next_tag, pending, ev, out, hist, call>>

\* The id of the discovery task: the first source main() adds.
DISCOVERY_TAG == 1

PollTags == sources \ {DISCOVERY_TAG}

NoEvent == [op |-> "none"]

NoCall == [fn |-> "none"]

Init ==
    /\ pc = "start"
    /\ config = DefaultConfig
    /\ watchers = <<>>
    /\ sources = {}
    /\ ctx = <<>>
    /\ next_tag = DISCOVERY_TAG
    /\ pending = {}
    /\ ev = NoEvent
    /\ out = <<>>
    /\ hist = <<>>
    /\ call = NoCall

\* main(): options_init, notify_init (which may fail), the watchers table, the
\* discovery task, the loop.
Main ==
    /\ pc = "start"
    /\ \E argv \in CommandLines, notify_ok \in BOOLEAN :
         LET cfg == ParseOptions(config, argv)
         IN  /\ config' = cfg
             /\ IF options_init(cfg) /\ notify_ok
                THEN /\ pc' = "running"
                     /\ sources' = {next_tag}
                     /\ next_tag' = next_tag + 1
                ELSE /\ pc' = "exited"
                     /\ UNCHANGED <<sources, next_tag>>
    /\ ev' = [op |-> "main"]
    /\ UNCHANGED <<watchers, ctx, pending, out, hist, call>>

(***************************************************************************)
(* The discovery tick.                                                     *)
(***************************************************************************)
Restrict(f, keys) == [k \in keys |-> f[k]]

\* add_watcher and the insertion into the table, for each battery of the list
\* whose serial number the table does not hold yet.  st = [w, c, s, n]: the
\* table, the contexts, the live sources, the next source id.
RECURSIVE CreateWatchers(_, _)
CreateWatchers(list, st) ==
    IF list = <<>> THEN st
    ELSE LET battery == battery_copy(Head(list))
         IN  IF battery.serial_number \in DOMAIN st.w
             THEN CreateWatchers(Tail(list), st)
             ELSE CreateWatchers(
                    Tail(list),
                    [w |-> (battery.serial_number :> st.n) @@ st.w,
                     c |-> (st.n :> context_init(battery)) @@ st.c,
                     s |-> st.s \cup {st.n},
                     n |-> st.n + 1])

\* The keys the second loop removes: those no battery of the list carries.
OldWatchers(w, list) ==
    {k \in DOMAIN w : \A i \in DOMAIN list : list[i].serial_number # k}

\* g_source_remove(*ptag) runs after g_hash_table_iter_remove has freed ptag
\* (the table's value destroy function is g_free): the guint it reads is
\* whatever the freed block holds, the old id or any other number.
ReadFreedTag(tag) == Nat

\* g_source_remove(id): destroys the source with that id, if there is one.
g_source_remove(s, id) == s \ {id}

\* batteries_supply_handler, were a failed enumeration to end the tick only.
DiscoveryFailedContinue ==
    /\ ev' = [op |-> "discovery", ok |-> FALSE, listed |-> {}]
    /\ UNCHANGED <<pc, sources, pending, watchers, ctx, next_tag>>

\* if (result == FALSE) { g_main_loop_quit(loop); return G_SOURCE_REMOVE; }
\* The loop leaves after the iteration it is in, which may still dispatch
\* poll tasks that were ready; the discovery source is destroyed.
DiscoveryFailed ==
    /\ pc' = "quitting"
    /\ sources' = g_source_remove(sources, DISCOVERY_TAG)
    /\ \E p \in SUBSET PollTags : pending' = p
    /\ ev' = [op |-> "discovery", ok |-> FALSE, listed |-> {}]
    /\ UNCHANGED <<watchers, ctx, next_tag>>

\* Every result get_batteries_supply can give over the directories dirs, each
\* of which may also fail to open.
SupplyResults(dirs) ==
    {get_batteries_supply(dir_ok, dir) : dir_ok \in BOOLEAN, dir \in dirs}

\* One run of batteries_supply_handler with one of the results of
\* get_batteries_supply, with source ids up to last_tag.  The run notes the
\* serial numbers listed, the path of each, and how many Battery copies it made
\* and how many it handed to a Context.
SupplyTick(results, last_tag) ==
    /\ pc = "running"
    /\ DISCOVERY_TAG \in sources
    /\ \E r \in results :
             IF ~r.ok
             THEN DiscoveryFailed
             ELSE LET st == CreateWatchers(
                              r.list,
                              [w |-> watchers, c |-> ctx, s |-> sources, n |-> next_tag])
                      old == OldWatchers(st.w, r.list)
                      listed == {r.list[i].serial_number : i \in DOMAIN r.list}
                  IN  /\ st.n <= last_tag + 1
                      /\ \E read \in [old -> 0..last_tag] :
                           /\ \A k \in old : read[k] \in ReadFreedTag(st.w[k])
                           /\ sources' = st.s \ {read[k] : k \in old}
                      /\ watchers' = Restrict(st.w, DOMAIN st.w \ old)
                      /\ ctx' = Restrict(st.c, DOMAIN st.c \cap sources')
                      /\ next_tag' = st.n
                      /\ pc' = pc
                      /\ pending' = pending
                      /\ ev' = [op |-> "discovery", ok |-> TRUE,
                                listed |-> listed,
                                paths |-> {<<r.list[i].serial_number,
                                             r.list[i].name>> :
                                             i \in DOMAIN r.list},
                                copied |-> Len(r.list),
                                owned |-> st.n - next_tag]
    /\ UNCHANGED <<config, out, hist, call>>

batteries_supply_handler == SupplyTick(SupplyResults(Directories), MaxTag)

\* battery_handler tabulated: the Battery of a Context plays no part in what a
\* run reads, shows or writes, so the runs are worked out once for each
\* configuration that main lets through and each prev_status and pair of
\* flags, and the Battery of the Context at hand is put back.
HandlerTable ==
    [cfg \in {ParseOptions(DefaultConfig, argv) : argv \in CommandLines} |->
       [p \in NO_STATUS..CHARGED_STATUS |->
          [l \in BOOLEAN |->
             [k \in BOOLEAN |->
                battery_handler([battery |-> <<>>, prev_status |-> p,
                                 low_level_notified |-> l,
                                 critical_level_notified |-> k], cfg)]]]]

Runs(c, cfg) ==
    {[r EXCEPT !.c.battery = c.battery] :
       r \in HandlerTable[cfg][c.prev_status][c.low_level_notified]
                         [c.critical_level_notified]}

(***************************************************************************)
(* The poll tick.                                                          *)
(***************************************************************************)
\* The main loop dispatches a poll task while the loop runs, or once more if
\* the iteration that called g_main_loop_quit had it ready.
CanDispatch(t) ==
    \/ pc = "running" /\ t \in PollTags
    \/ pc = "quitting" /\ t \in pending

\* One dispatch of battery_handler for the poll task t with the run o: the
\* Context is updated in place; a source whose callback returns
\* G_SOURCE_REMOVE is destroyed and its Context freed (context_free).
Dispatch(t, o) ==
    /\ sources' = IF o.ret = G_SOURCE_CONTINUE THEN sources ELSE g_source_remove(sources, t)
    /\ ctx' = IF o.ret = G_SOURCE_CONTINUE
              THEN [ctx EXCEPT ![t] = o.c]
              ELSE Restrict(ctx, DOMAIN ctx \ {t})
    /\ pc' = IF o.crashed THEN "crashed" ELSE pc
    /\ pending' = IF o.crashed THEN {} ELSE pending \ {t}
    /\ UNCHANGED <<config, watchers, next_tag, call>>

\* The poll tick of the task t.
Poll(t) ==
    /\ CanDispatch(t)
    /\ \E o \in {[c |-> r.c, ret |-> r.ret, crashed |-> r.crashed] :
                   r \in Runs(ctx[t], config)} :
         Dispatch(t, o)
    /\ ev' = [op |-> "poll", tag |-> t]
    /\ UNCHANGED <<out, hist>>

\* g_main_loop_run returns once the iteration that saw the quit is over.
LoopExit ==
    /\ pc = "quitting"
    /\ pending = {}
    /\ pc' = "exited"
    /\ ev' = [op |-> "exit"]
    /\ UNCHANGED <<config, watchers, sources, ctx, next_tag, pending, out, hist, call>>

Next ==
    \/ Main
    \/ batteries_supply_handler
    \/ \E t \in 1..MaxTag : Poll(t)
    \/ LoopExit

Spec == Init /\ [][Next]_vars

(***************************************************************************)
(* One watcher alone: the state main() and the first discovery tick leave  *)
(* for a directory with one battery, and its poll ticks from there on.     *)
(***************************************************************************)
RunningConfigs ==
    {cfg \in {ParseOptions(DefaultConfig, argv) : argv \in CommandLines} :
       options_init(cfg)}

FIRST_POLL_TAG == DISCOVERY_TAG + 1

InitWatcher ==
    /\ pc = "running"
    /\ config \in RunningConfigs
    /\ LET e == [name |-> "BAT0", init_ok |-> TRUE, serial_number |-> "s1",
                 use_charge |-> TRUE]
       IN  /\ watchers = (e.serial_number :> FIRST_POLL_TAG)
           /\ ctx = (FIRST_POLL_TAG :> context_init(battery_copy(battery_init(e))))
    /\ sources = {DISCOVERY_TAG, FIRST_POLL_TAG}
    /\ next_tag = FIRST_POLL_TAG + 1
    /\ pending = {}
    /\ ev = NoEvent
    /\ out = <<>>
    /\ hist = <<>>
    /\ call = NoCall

\* The poll tick, observed in full: the Context before the run, what the run
\* read, and the notifications with their percent and seconds.
PollObserved(t) ==
    /\ CanDispatch(t)
    /\ \E o \in Runs(ctx[t], config) :
         /\ Dispatch(t, o)
         /\ ev' = [op |-> "poll", tag |-> t, res |-> o.res, crashed |-> o.crashed,
                   ret |-> o.ret, before |-> ctx[t], status |-> o.status,
                   capacity |-> o.capacity, time_ok |-> o.time_ok]
         /\ out' = o.alerts
    /\ UNCHANGED hist

NextTick == \E t \in 1..MaxTag : PollObserved(t)

SpecTick == InitWatcher /\ [][NextTick]_vars

\* The notifications of a run by name: "status", "low", "critical".
AlertNames(alerts) ==
    [i \in DOMAIN alerts |->
       IF alerts[i].kind = "status" THEN "status"
       ELSE IF alerts[i].what = LOW_LEVEL THEN "low" ELSE "critical"]

\* Where a capacity lies against the two thresholds of the configuration.
Band(cfg, capacity) ==
    IF capacity < 0 THEN "none"
    ELSE IF capacity <= cfg.critical_level THEN "critical"
    ELSE IF capacity <= cfg.low_level THEN "low"
    ELSE "high"

\* The last two entries of a sequence.
Last2(h) == IF Len(h) <= 2 THEN h ELSE SubSeq(h, Len(h) - 1, Len(h))

\* Which run of its watcher a run is: the first, the second, or a later one.
NextOrdinal(h) ==
    IF h = <<>> THEN "first"
    ELSE IF h[Len(h)].n = "first" THEN "second" ELSE "later"

\* The poll tick, with the last two runs of the task kept: what each read and
\* showed, and the Context it started from.
PollTraced(t) ==
    /\ CanDispatch(t)
    /\ \E o \in {[c |-> r.c, ret |-> r.ret, crashed |-> r.crashed, res |-> r.res,
                    status |-> r.status, band |-> Band(config, r.capacity),
                    alerts |-> AlertNames(r.alerts)] :
                   r \in Runs(ctx[t], config)} :
         /\ Dispatch(t, o)
         /\ hist' = Last2(Append(hist,
                      [n |-> NextOrdinal(hist),
                       res |-> o.res, status |-> o.status, band |-> o.band,
                       alerts |-> o.alerts,
                       before |-> [prev_status |-> ctx[t].prev_status,
                                   low_level_notified |-> ctx[t].low_level_notified,
                                   critical_level_notified |->
                                     ctx[t].critical_level_notified]]))
    /\ UNCHANGED <<ev, out>>

NextSM == \E t \in 1..MaxTag : PollTraced(t)

SpecSM == InitWatcher /\ [][NextSM]_vars

(***************************************************************************)
(* Properties.                                                             *)
(***************************************************************************)
Count(seq, x) == Cardinality({i \in DOMAIN seq : seq[i] = x})
StatusAlerts(alerts) == {i \in DOMAIN alerts : alerts[i].kind = "status"}
Discharge == {DISCHARGING_STATUS, NOT_CHARGING_STATUS}

\* C1: in every reachable state, no Context of any poll task has both
\* low_level_notified and critical_level_notified true.
C1_FlagsExclusive ==
    \A t \in DOMAIN ctx :
      ~(ctx[t].low_level_notified /\ ctx[t].critical_level_notified)

\* A watcher that has polled and holds one of the flags.
C1_Witness ==
    /\ ev.op = "poll"
    /\ ctx[ev.tag].critical_level_notified
    /\ ctx[ev.tag].prev_status = NOT_CHARGING_STATUS

\* C2: of two consecutive completed runs with the same status Discharging (or
\* NotCharging), both with a capacity above critical_level and at most
\* low_level, the first starting with low_level_notified false: the first shows
\* exactly one low-level notification, the second shows nothing, and
\* low_level_notified is true after each.
C2_LowAlertOnce ==
    Len(hist) >= 2 =>
      LET r1 == hist[Len(hist) - 1]
          r2 == hist[Len(hist)]
      IN  ( /\ r1.res = "ok" /\ r2.res = "ok"
            /\ r1.status \in Discharge /\ r2.status = r1.status
            /\ r1.band = "low" /\ r2.band = "low"
            /\ ~r1.before.low_level_notified )
          => /\ Count(r1.alerts, "low") = 1
             /\ r2.alerts = <<>>
             /\ r2.before.low_level_notified
             /\ \A t \in DOMAIN ctx : ctx[t].low_level_notified

C2_Witness ==
    /\ Len(hist) >= 2
    /\ hist[Len(hist) - 1].res = "ok" /\ hist[Len(hist)].res = "ok"
    /\ hist[Len(hist) - 1].status = DISCHARGING_STATUS
    /\ hist[Len(hist)].status = DISCHARGING_STATUS
    /\ hist[Len(hist) - 1].band = "low" /\ hist[Len(hist)].band = "low"
    /\ ~hist[Len(hist) - 1].before.low_level_notified
    /\ hist[Len(hist)].alerts = <<>>

\* The runs a step of SpecSM shows: the two kept before it and the one it adds.
StepRuns == Append(hist, hist'[Len(hist')])
IsRunStep == Len(hist') >= 1 /\ hist' = Last2(StepRuns)

\* C3: the first three runs of a new watcher, all completed with status
\* Discharging, with capacities above low_level, then in (critical_level,
\* low_level], then at most critical_level: the first shows no level
\* notification, the second exactly one low and no critical, the third exactly
\* one critical and no low, and then critical_level_notified is true and
\* low_level_notified false.
C3_Pattern(runs) ==
    /\ Len(runs) = 3
    /\ runs[1].n = "first" /\ runs[1].before.prev_status = NO_STATUS
    /\ \A i \in 1..3 : runs[i].res = "ok" /\ runs[i].status = DISCHARGING_STATUS
    /\ runs[1].band = "high" /\ runs[2].band = "low" /\ runs[3].band = "critical"

C3_Step ==
    (IsRunStep /\ C3_Pattern(StepRuns)) =>
      LET runs == StepRuns
      IN  /\ Count(runs[1].alerts, "low") = 0 /\ Count(runs[1].alerts, "critical") = 0
          /\ Count(runs[2].alerts, "low") = 1 /\ Count(runs[2].alerts, "critical") = 0
          /\ Count(runs[3].alerts, "critical") = 1 /\ Count(runs[3].alerts, "low") = 0
          /\ \A t \in DOMAIN ctx' :
               ctx'[t].critical_level_notified /\ ~ctx'[t].low_level_notified

C3_ThresholdCrossing == [][C3_Step]_vars

\* The second and third run of a watcher whose first run was Discharging and
\* set no flag: low shown by the second, critical by the third.
C3_Witness ==
    /\ Len(hist) = 2
    /\ hist[1].n = "second" /\ hist[2].n = "later"
    /\ hist[1].before = [prev_status |-> DISCHARGING_STATUS,
                         low_level_notified |-> FALSE,
                         critical_level_notified |-> FALSE]
    /\ hist[1].res = "ok" /\ hist[1].status = DISCHARGING_STATUS
    /\ hist[2].res = "ok" /\ hist[2].status = DISCHARGING_STATUS
    /\ hist[1].band = "low" /\ hist[2].band = "critical"
    /\ hist[1].alerts = <<"low">>
    /\ hist[2].alerts = <<"critical">>
    /\ \A t \in DOMAIN ctx :
         ctx[t].critical_level_notified /\ ~ctx[t].low_level_notified

\* C4: a completed run whose reads all succeeded, with status Charging, Charged,
\* Discharging or NotCharging, shows a status notification exactly when the
\* status differs from prev_status, and it is the notification of that status; the
\* one of a Charged run carries percent 100 and seconds 0.  Of two such runs in
\* a row with the same status, the second shows no status notification and the
\* first shows one exactly when it was the change.
C4_Run(e) ==
    /\ e.op = "poll" /\ e.res = "ok" /\ e.time_ok
    /\ e.status \in ConcreteStatuses

C4_EdgeState ==
    C4_Run(ev) =>
      /\ Cardinality(StatusAlerts(out)) =
           IF ev.before.prev_status # ev.status THEN 1 ELSE 0
      /\ \A i \in StatusAlerts(out) :
           /\ out[i].what = ev.status
           /\ ev.status = CHARGED_STATUS => out[i].percent = 100 /\ out[i].seconds = 0

C4_EdgeStep ==
    (C4_Run(ev) /\ C4_Run(ev') /\ ev'.tag = ev.tag /\ ev'.status = ev.status) =>
      /\ StatusAlerts(out') = {}
      /\ ev.before.prev_status # ev.status => Cardinality(StatusAlerts(out)) = 1

C4_StatusEdgeTriggered == [](C4_EdgeState) /\ [][C4_EdgeStep]_vars

\* The second of two Charging runs in a row: nothing is shown.
C4_Witness ==
    /\ C4_Run(ev)
    /\ ev.status = CHARGING_STATUS
    /\ ev.before.prev_status = CHARGING_STATUS
    /\ out = <<>>

\* C5: when one or more runs in a row fail to read the status, or fail to read
\* the capacity while the status read S, and prev_status was not S before the
\* first of them, then a completed run with status S (one of the four concrete
\* statuses) that follows them shows the status notification.
C5_Failed(r, S) ==
    \/ r.res = "status_err"
    \/ r.res = "capacity_err" /\ r.status = S

C5_Case(runs, k) ==
    /\ k < Len(runs)
    /\ runs[Len(runs)].res = "ok"
    /\ runs[Len(runs)].status \in ConcreteStatuses
    /\ \A i \in (Len(runs) - k)..(Len(runs) - 1) :
         C5_Failed(runs[i], runs[Len(runs)].status)
    /\ runs[Len(runs) - k].before.prev_status # runs[Len(runs)].status

C5_Step ==
    IsRunStep =>
      \A k \in 1..2 :
        C5_Case(StepRuns, k) => Count(hist'[Len(hist')].alerts, "status") = 1

C5_TransitionNotLost == [][C5_Step]_vars

\* A failed capacity read while Charging, prev_status being another status,
\* then a Charging run that completes and shows the notification.
C5_Witness ==
    /\ C5_Case(hist, 1)
    /\ hist[Len(hist)].status = CHARGING_STATUS
    /\ hist[1].res = "capacity_err"
    /\ hist[1].before.prev_status = DISCHARGING_STATUS
    /\ hist[2].alerts = <<"status">>

\* A run of battery_handler in which a read failed: the status, the capacity, or
\* the time.
FailedRead(e) == e.op = "poll" /\ (e.res # "ok" \/ ~e.time_ok)

C8_WatcherSurvives ==
    ev.op = "poll" => pc # "crashed" /\ ev.tag \in sources

C9_Step ==
    /\ (pc = "running" /\ ev'.op = "discovery" /\ ~ev'.ok) =>
         /\ pc' = "quitting"
         /\ watchers' = watchers /\ ctx' = ctx
         /\ sources' = sources \ {DISCOVERY_TAG}
         /\ pending' \subseteq sources'
    /\ (pc = "running" /\ pc' = "quitting") => ev'.op = "discovery" /\ ~ev'.ok
    /\ pc = "quitting" =>
         /\ ev'.op \in {"poll", "exit"}
         /\ ev'.op = "poll" =>
              /\ ev'.tag \in pending
              /\ pending' \subseteq pending \ {ev'.tag}
    /\ pc = "exited" => UNCHANGED vars

C10_RemovedTaskCancelled ==
    (ev.op = "discovery" /\ ev.ok) =>
      \A t \in DOMAIN ctx : ctx[t].battery.serial_number \in ev.listed

\* C11: after a discovery tick that enumerated the batteries, the keys of the
\* watchers table are the serial numbers listed, every key has a live poll task
\* with a Context of that serial number, and every live poll task is the task
\* of a key.
C11_TableMatchesEnumeration ==
    (ev.op = "discovery" /\ ev.ok) =>
      /\ DOMAIN watchers = ev.listed
      /\ \A k \in DOMAIN watchers :
           /\ watchers[k] \in PollTags
           /\ ctx[watchers[k]].battery.serial_number = k
      /\ \A t \in PollTags : \E k \in DOMAIN watchers : watchers[k] = t

(***************************************************************************)
(* main() alone, over the command lines of up to two options.              *)
(***************************************************************************)
Options == {"interval", "low-level", "critical-level", "full-capacity"}
OptionValues == {-1, 0, 15, 30, 99, 100, 101}
OptionLines ==
    UNION {[1..n -> {<<o, v>> : o \in Options, v \in OptionValues}] : n \in 0..2}

\* main() up to g_main_loop_run, with the command line and the verdict of
\* options_init kept.
MainObserved ==
    /\ pc = "start"
    /\ \E argv \in OptionLines, notify_ok \in BOOLEAN :
         LET cfg == ParseOptions(config, argv)
         IN  /\ config' = cfg
             /\ IF options_init(cfg) /\ notify_ok
                THEN /\ pc' = "running"
                     /\ sources' = {next_tag}
                     /\ next_tag' = next_tag + 1
                ELSE /\ pc' = "exited"
                     /\ UNCHANGED <<sources, next_tag>>
             /\ ev' = [op |-> "main", argv |-> argv, accepted |-> options_init(cfg)]
    /\ UNCHANGED <<watchers, ctx, pending, out, hist, call>>

NextOptions == MainObserved

SpecOptions == Init /\ [][NextOptions]_vars

RECURSIVE LastValue(_, _, _)
LastValue(argv, option, default) ==
    IF argv = <<>> THEN default
    ELSE LastValue(Tail(argv), option,
                   IF Head(argv)[1] = option THEN Head(argv)[2] ELSE default)

\* C20: after the command line is parsed, each field of config holds the value
\* its own option was given, or its default: full_capacity the value of
\* full-capacity (default 98), and interval, low_level and critical_level those
\* of their options, whatever full-capacity was given.
C20_OptionSetsOwnField ==
    ev.op = "main" =>
      /\ config.full_capacity =
           LastValue(ev.argv, "full-capacity", DEFAULT_FULL_CAPACITY)
      /\ config.interval = LastValue(ev.argv, "interval", DEFAULT_INTERVAL)
      /\ config.low_level = LastValue(ev.argv, "low-level", DEFAULT_LOW_LEVEL)
      /\ config.critical_level =
           LastValue(ev.argv, "critical-level", DEFAULT_CRITICAL_LEVEL)

(***************************************************************************)
(* The readers of battery.c called on their own, over what the attribute   *)
(* files may hold.                                                         *)
(***************************************************************************)
\* Contents of a numeric attribute: none, empty, digits, signs, letters, white
\* space, and a number too large for a guint64.
IntTexts ==
    { NoFile, File(<<>>), File(<<"\n">>), Dec(0), Dec(12),
      File(<<"0", "0", "7", "\n">>),
      File(<<"-", "5", "\n">>), File(<<"+", "3", "\n">>), File(<<"-", "\n">>),
      File(<<"a", "b", "c", "\n">>), File(<<"1", "2", "a", "b", "\n">>),
      File(<<" ", "7", "\n">>),
      File(<<"9", "9", "9", "9", "9", "9", "\n">>) }

CallCapacityFiles == {NoFile, Dec(0), Dec(50), Dec(100), Dec(150)}
CallNowFiles == {NoFile, Dec(0), Dec(8), Dec(64), Dec(100)}
CallFullFiles == {NoFile, Dec(0), Dec(64)}
CallRateFiles == {NoFile, Dec(0), Dec(1), Dec(HOUR)}

Call(fn, file, capacity_file, now_file, full_file, rate_file, status) ==
    [fn |-> fn, file |-> file, capacity_file |-> capacity_file,
     now_file |-> now_file, full_file |-> full_file, rate_file |-> rate_file,
     status |-> status, done |-> FALSE, result |-> [ok |-> FALSE]]

Calls ==
    {Call("_get_sysattr_int", f, NoFile, NoFile, NoFile, NoFile, NO_STATUS) :
       f \in IntTexts}
    \cup
    {Call("get_battery_capacity", NoFile, c, n, f, NoFile, NO_STATUS) :
       c \in CallCapacityFiles, n \in CallNowFiles, f \in CallFullFiles}
    \cup
    {Call("get_battery_time", NoFile, NoFile, n, f, r, s) :
       n \in CallNowFiles, f \in CallFullFiles, r \in CallRateFiles,
       s \in UNKNOWN_STATUS..CHARGED_STATUS}

InitCall ==
    /\ pc = "start"
    /\ config = DefaultConfig
    /\ watchers = <<>>
    /\ sources = {}
    /\ ctx = <<>>
    /\ next_tag = DISCOVERY_TAG
    /\ pending = {}
    /\ ev = NoEvent
    /\ out = <<>>
    /\ hist = <<>>
    /\ call \in Calls

Return(result) ==
    /\ call' = [call EXCEPT !.done = TRUE, !.result = result]
    /\ UNCHANGED <<pc, config, watchers, sources, ctx, next_tag, pending, ev, out, hist>>

CallSysattrInt ==
    /\ call.fn = "_get_sysattr_int" /\ ~call.done
    /\ Return(_get_sysattr_int(call.file))

CallBatteryCapacity ==
    /\ call.fn = "get_battery_capacity" /\ ~call.done
    /\ \E r \in get_battery_capacity(call.capacity_file, call.now_file, call.full_file) :
         Return(r)

CallBatteryTime ==
    /\ call.fn = "get_battery_time" /\ ~call.done
    /\ \E r \in get_battery_time(call.now_file, call.full_file, call.rate_file,
                                 call.status) :
         Return(r)

NextCall == CallSysattrInt \/ CallBatteryCapacity \/ CallBatteryTime

SpecCall == InitCall /\ [][NextCall]_vars

\* A numeric attribute that was read and gave the number n.
Reads(file, n) == _get_sysattr_int(file) = [ok |-> TRUE, value |-> n]
Readable(file) == _get_sysattr_int(file).ok

\* C13: get_battery_time, called with now and full readable and the rate
\* attribute reading 0, succeeds with seconds = 0, whatever the status.
C13_ZeroRateGivesZero ==
    (/\ call.fn = "get_battery_time" /\ call.done
     /\ Readable(call.now_file) /\ Readable(call.full_file)
     /\ Reads(call.rate_file, 0))
    => call.result.ok /\ call.result.seconds = 0

\* C14: get_battery_capacity, called with the capacity attribute unreadable,
\* now readable and full reading 0, fails.
C14_ZeroFullFails ==
    (/\ call.fn = "get_battery_capacity" /\ call.done
     /\ ~Readable(call.capacity_file)
     /\ Readable(call.now_file)
     /\ Reads(call.full_file, 0))
    => ~call.result.ok

\* The text of an unsigned decimal number: digits, then the newline the kernel
\* ends an attribute with.
RECURSIVE AllDigits(_)
AllDigits(s) == s = <<>> \/ (IsDigit(Head(s)) /\ AllDigits(Tail(s)))
IsUnsignedDecimal(text) ==
    /\ Len(text) >= 2
    /\ text[Len(text)] = "\n"
    /\ AllDigits(SubSeq(text, 1, Len(text) - 1))

\* C15: _get_sysattr_int fails on every content that is not an unsigned
\* decimal number: negative, empty, letters.
C15_RejectsNonNumeric ==
    (/\ call.fn = "_get_sysattr_int" /\ call.done
     /\ call.file.ok
     /\ ~IsUnsignedDecimal(call.file.text))
    => ~call.result.ok

\* C16: every capacity get_battery_capacity returns is in 0..100.
C16_CapacityInRange ==
    (call.fn = "get_battery_capacity" /\ call.done /\ call.result.ok)
    => call.result.value \in 0..100

\* C17: a run that read the status Unknown.  With prev_status Unknown already it
\* completes without reading the capacity and shows nothing.  With any other
\* prev_status (the 0 of context_init included) and the capacity read, it shows
\* exactly one notification, that of CHARGED_STATUS with the capacity read and
\* seconds 0, when the capacity is at least full_capacity, and none below it.
C17_UnknownTick ==
    (ev.op = "poll" /\ ev.res # "status_err" /\ ev.status = UNKNOWN_STATUS) =>
      /\ ev.before.prev_status = UNKNOWN_STATUS =>
           ev.res = "ok" /\ ev.capacity = -1 /\ out = <<>>
      /\ (ev.before.prev_status # UNKNOWN_STATUS /\ ev.res = "ok") =>
           /\ ev.capacity >= 0
           /\ ev.capacity >= config.full_capacity =>
                out = <<[kind |-> "status", what |-> CHARGED_STATUS,
                         percent |-> ev.capacity, seconds |-> 0]>>
           /\ ev.capacity < config.full_capacity => out = <<>>

\* The first run of a watcher reads Unknown at capacity 98.
C17_Witness ==
    /\ ev.op = "poll" /\ ev.res = "ok" /\ ev.status = UNKNOWN_STATUS
    /\ ev.before.prev_status = NO_STATUS
    /\ ev.capacity = 98
    /\ Len(out) = 1 /\ out[1].what = CHARGED_STATUS /\ out[1].percent = 98

Resetting == {UNKNOWN_STATUS, CHARGED_STATUS, CHARGING_STATUS}

\* C18: after a run that read the status Unknown, Charged or Charging, both
\* flags are false, whether or not its capacity read succeeded; and the
\* completed Discharging or NotCharging run that follows it shows the low
\* notification when its capacity is in (critical_level, low_level] and the
\* critical one when it is at most critical_level.
C18_ResetRearms ==
    /\ (/\ hist # <<>>
        /\ hist[Len(hist)].res # "status_err"
        /\ hist[Len(hist)].status \in Resetting)
       => \A t \in DOMAIN ctx :
            ~ctx[t].low_level_notified /\ ~ctx[t].critical_level_notified
    /\ (/\ Len(hist) = 2
        /\ hist[1].res # "status_err" /\ hist[1].status \in Resetting
        /\ hist[2].res = "ok" /\ hist[2].status \in Discharge)
       => /\ hist[2].band = "low" => Count(hist[2].alerts, "low") = 1
          /\ hist[2].band = "critical" => Count(hist[2].alerts, "critical") = 1

\* low_level_notified was set, a Charging run lost its capacity read, and the
\* Discharging run after it shows the low notification again.
C18_Witness ==
    /\ Len(hist) = 2
    /\ hist[1].status = CHARGING_STATUS /\ hist[1].res = "capacity_err"
    /\ hist[1].before.low_level_notified
    /\ hist[1].before.prev_status = DISCHARGING_STATUS
    /\ hist[2].res = "ok" /\ hist[2].status = DISCHARGING_STATUS
    /\ hist[2].band = "low"
    /\ hist[2].alerts = <<"low">>

\* C19: a completed Discharging or NotCharging run with a capacity above
\* low_level leaves both flags as they were; so when low_level_notified was
\* true before it and the next completed run has the same status and a
\* capacity in (critical_level, low_level], that run shows no low notification.
C19_Hysteresis ==
    /\ (/\ hist # <<>>
        /\ hist[Len(hist)].res = "ok"
        /\ hist[Len(hist)].status \in Discharge
        /\ hist[Len(hist)].band = "high")
       => \A t \in DOMAIN ctx :
            /\ ctx[t].low_level_notified =
                 hist[Len(hist)].before.low_level_notified
            /\ ctx[t].critical_level_notified =
                 hist[Len(hist)].before.critical_level_notified
    /\ (/\ Len(hist) = 2
        /\ hist[1].res = "ok" /\ hist[1].status \in Discharge
        /\ hist[1].band = "high"
        /\ hist[1].before.low_level_notified
        /\ hist[2].res = "ok" /\ hist[2].status = hist[1].status
        /\ hist[2].band = "low")
       => Count(hist[2].alerts, "low") = 0

\* Discharging throughout, low already shown: up above low_level, back into
\* the band, and nothing is shown.
C19_Witness ==
    /\ Len(hist) = 2
    /\ hist[1].before.low_level_notified
    /\ hist[1].before.prev_status = DISCHARGING_STATUS
    /\ hist[1].res = "ok" /\ hist[1].status = DISCHARGING_STATUS
    /\ hist[1].band = "high"
    /\ hist[2].res = "ok" /\ hist[2].status = DISCHARGING_STATUS
    /\ hist[2].band = "low"
    /\ hist[2].alerts = <<>>
    /\ \A t \in DOMAIN ctx : ctx[t].low_level_notified

(***************************************************************************)
(* One battery that comes and goes, with room for one poll task more, and  *)
(* the first runs of each poll task observed.                              *)
(***************************************************************************)
LifeDirectories ==
    { <<>>,
      <<[name |-> "BAT0", init_ok |-> TRUE, serial_number |-> "s1",
         use_charge |-> TRUE]>> }

LastLifeTag == MaxTag + 1

\* The discovery ticks of this battery whose enumeration succeeds.
SupplyTickLife ==
    SupplyTick({r \in SupplyResults(LifeDirectories) : r.ok}, LastLifeTag)

\* The poll tick; of a run that starts from the Context context_init made, what
\* it read and showed is kept.
PollFirst(t) ==
    /\ CanDispatch(t)
    /\ \E o \in {[c |-> r.c, ret |-> r.ret, crashed |-> r.crashed, res |-> r.res,
                    status |-> r.status, band |-> Band(config, r.capacity),
                    alerts |-> AlertNames(r.alerts)] :
                   r \in Runs(ctx[t], config)} :
         /\ Dispatch(t, o)
         /\ ev' = IF ctx[t] = context_init(ctx[t].battery)
                  THEN [op |-> "poll", tag |-> t, fresh |-> TRUE, res |-> o.res,
                        status |-> o.status, band |-> o.band, alerts |-> o.alerts]
                  ELSE [op |-> "poll", tag |-> t, fresh |-> FALSE]
    /\ UNCHANGED <<out, hist>>

NextLife ==
    \/ Main
    \/ SupplyTickLife
    \/ \E t \in 1..LastLifeTag : PollFirst(t)

SpecLife == Init /\ [][NextLife]_vars

\* C21: after a discovery tick that enumerated the batteries, the poll task of
\* every serial number in the table reads the directory at which the tick
\* found that serial number.
C21_PollFollowsPath ==
    (ev.op = "discovery" /\ ev.ok) =>
      \A k \in DOMAIN watchers :
        watchers[k] \in DOMAIN ctx =>
          <<k, ctx[watchers[k]].battery.name>> \in ev.paths

\* C22: a discovery tick that puts a serial number into the table that was not
\* in it gives it a new poll task whose Context has prev_status 0 and both
\* flags false, whatever Context an earlier task of that serial number had; and
\* a run that starts from such a Context and completes shows the status
\* notification when the status is one of the four concrete ones, the low
\* notification when the status is Discharging or NotCharging and the capacity
\* is in (critical_level, low_level], and the critical one when it is at most
\* critical_level.
C22_Added == DOMAIN watchers' \ DOMAIN watchers

C22_Step ==
    (ev'.op = "discovery" /\ ev'.ok) =>
      \A k \in C22_Added :
        /\ watchers'[k] \notin sources
        /\ watchers'[k] \in DOMAIN ctx' =>
             /\ ctx'[watchers'[k]].battery.serial_number = k
             /\ ctx'[watchers'[k]].prev_status = NO_STATUS
             /\ ~ctx'[watchers'[k]].low_level_notified
             /\ ~ctx'[watchers'[k]].critical_level_notified

C22_FirstRun ==
    (ev.op = "poll" /\ ev.fresh /\ ev.res = "ok") =>
      /\ ev.status \in ConcreteStatuses => Count(ev.alerts, "status") = 1
      /\ (ev.status \in Discharge /\ ev.band = "low") =>
           Count(ev.alerts, "low") = 1
      /\ (ev.status \in Discharge /\ ev.band = "critical") =>
           Count(ev.alerts, "critical") = 1

C22_ReaddedStartsAnew == [](C22_FirstRun) /\ [][C22_Step]_vars

\* The battery is in the table for the second time, and the first run of its
\* second poll task, Discharging in the low band, shows status and low.
C22_Witness ==
    /\ ev.op = "poll" /\ ev.fresh /\ ev.res = "ok"
    /\ ev.tag > FIRST_POLL_TAG
    /\ "s1" \in DOMAIN watchers /\ watchers["s1"] = ev.tag
    /\ ev.status = DISCHARGING_STATUS /\ ev.band = "low"
    /\ ev.alerts = <<"status", "low">>
    /\ ctx[ev.tag].low_level_notified

\* C23: a completed run with status Discharging whose prev_status was
\* NotCharging, or the other way round, shows exactly one status notification;
\* if low_level_notified was true and the capacity is in
\* (critical_level, low_level], or critical_level_notified was true and the
\* capacity is at most critical_level, it shows no level notification and
\* leaves both flags as they were.
C23_Transition(e) ==
    /\ e.op = "poll" /\ e.res = "ok"
    /\ e.status \in Discharge /\ e.before.prev_status \in Discharge
    /\ e.status # e.before.prev_status

C23_TransitionKeepsFlags ==
    C23_Transition(ev) =>
      /\ Cardinality(StatusAlerts(out)) = 1
      /\ \A i \in StatusAlerts(out) : out[i].what = ev.status
      /\ (\/ ev.before.low_level_notified /\ Band(config, ev.capacity) = "low"
          \/ ev.before.critical_level_notified
               /\ Band(config, ev.capacity) = "critical")
         => /\ Len(out) = 1
            /\ ctx[ev.tag].low_level_notified = ev.before.low_level_notified
            /\ ctx[ev.tag].critical_level_notified =
                 ev.before.critical_level_notified

\* Discharging to NotCharging in the low band with low already shown.
C23_Witness ==
    /\ C23_Transition(ev)
    /\ ev.status = NOT_CHARGING_STATUS
    /\ ev.before.low_level_notified
    /\ Band(config, ev.capacity) = "low"
    /\ Len(out) = 1 /\ out[1].kind = "status"
    /\ ctx[ev.tag].low_level_notified

\* C24: get_battery_time with status Charging or Charged, the three attributes
\* read and the rate above 0 gives at most 3600 * full / rate seconds.
C24_TimeToFullBounded ==
    (/\ call.fn = "get_battery_time" /\ call.done
     /\ call.status \in {CHARGING_STATUS, CHARGED_STATUS}
     /\ Readable(call.now_file) /\ Readable(call.full_file)
     /\ Readable(call.rate_file) /\ ~Reads(call.rate_file, 0))
    => /\ call.result.ok
       /\ call.result.seconds * _get_sysattr_int(call.rate_file).value
            <= HOUR * _get_sysattr_int(call.full_file).value

\* C25: a discovery tick that enumerated the batteries handed every Battery
\* copy it made to the Context of a new poll task.
C25_CopiesOwned ==
    (ev.op = "discovery" /\ ev.ok) => ev.copied = ev.owned

====
